---- MODULE Spec2Model ----
(***************************************************************************)
(* vxLuaGlue.c: the glue layer between the VxWorks symbol table and the    *)
(* Lua scripting engine.  The module models the three script entry points  *)
(* vxDo (l_ExecuteLuaCommand), vxGet (l_vxGet), vxSet (l_vxSet) and the    *)
(* engine life cycle TSysStartLua / TSysStopLua / TSysRunLuaScript.        *)
(*                                                                         *)
(* A native word (unsigned int, 32 bits) is a pair <<hi, lo>> of 16-bit    *)
(* halves, because the model checker's integers stop at 2^31-1.  A Lua     *)
(* number (double) is a sign, a magnitude <<hi, lo>> and a flag for a      *)
(* fractional part of one half.  A C string is the sequence of its         *)
(* characters without the terminating NUL.                                 *)
(***************************************************************************)
EXTENDS Integers, Sequences, FiniteSets, TLC

VARIABLES build, mem, op, stack, obs, prev, luaVM, opened, closes, life

vars == <<build, mem, op, stack, obs, prev, luaVM, opened, closes, life>>

----------------------------------------------------------------------------
(* Bounds of the checked inputs *)

\* largest number of values on the Lua stack of one call (name included)
MaxTop == 17
\* largest number of values on the stack of a vxGet or vxSet call
MaxVarTop == 2
\* rotations of the argument pool that are tried
MaxSeed == 2
\* length of the over-long name
LongLen == 127
\* engine instances lua_open can hand out
MaxEngines == 3
\* lua_close calls followed per engine instance
MaxCloses == 2

----------------------------------------------------------------------------
(* Native words *)

W16 == 65536

Zero == <<0, 0>>

WAdd(a, b) ==
    LET lo == a[2] + b[2]
        hi == a[1] + b[1] + (lo \div W16)
    IN  <<hi % W16, lo % W16>>

\* two's complement negation of a 32-bit pattern
WNeg(w) ==
    IF w = Zero THEN Zero
    ELSE IF w[2] = 0 THEN <<(W16 - w[1]) % W16, 0>>
    ELSE <<W16 - 1 - w[1], W16 - w[2]>>

\* the sign bit of a word read as int
IsNegInt(w) == w[1] >= 32768

----------------------------------------------------------------------------
(* Lua values *)

NoStr == <<>>

LuaVal(t, neg, hi, lo, half, s) ==
    [t |-> t, neg |-> neg, hi |-> hi, lo |-> lo, half |-> half, s |-> s]

Nil == LuaVal("nil", FALSE, 0, 0, FALSE, NoStr)

Bool(b) == LuaVal("boolean", FALSE, 0, IF b THEN 1 ELSE 0, FALSE, NoStr)

Num(neg, hi, lo, half) == LuaVal("number", neg, hi, lo, half, NoStr)

Str(s) == LuaVal("string", FALSE, 0, 0, FALSE, s)

Other(t) == LuaVal(t, FALSE, 0, 0, FALSE, NoStr)

\* a null char pointer; no C string equals it
NullPtr == <<"NULL">>

Digits == <<"0", "1", "2", "3", "4", "5", "6", "7", "8", "9">>

DigitVal(c) == (CHOOSE d \in 1..10 : Digits[d] = c) - 1

IsDigit(c) == \E d \in 1..10 : Digits[d] = c

RECURSIVE AllDigits(_)
AllDigits(s) == IF s = <<>> THEN TRUE ELSE IsDigit(Head(s)) /\ AllDigits(Tail(s))

\* luaO_str2d on the decimal integers: an optional sign and one to four digits
IsNumeral(s) ==
    LET body == IF s # <<>> /\ Head(s) = "-" THEN Tail(s) ELSE s
    IN  /\ body # <<>>
        /\ Len(body) <= 4
        /\ AllDigits(body)

RECURSIVE DecVal(_, _)
DecVal(s, acc) == IF s = <<>> THEN acc ELSE DecVal(Tail(s), 10 * acc + DigitVal(Head(s)))

Str2Num(s) ==
    LET neg == Head(s) = "-"
        v == DecVal(IF neg THEN Tail(s) ELSE s, 0)
    IN  Num(neg /\ v # 0, 0, v, FALSE)

RECURSIVE DecStr(_)
DecStr(n) == IF n < 10 THEN <<Digits[n + 1]>> ELSE DecStr(n \div 10) \o <<Digits[(n % 10) + 1]>>

\* lua_number2str ("%.14g") on the numbers below 2^16
Num2Str(v) ==
    (IF v.neg THEN <<"-">> ELSE <<>>) \o DecStr(v.lo) \o (IF v.half THEN <<".", "5">> ELSE <<>>)

lua_gettop(st) == Len(st)

\* the value at a stack index; an index above the top is LUA_TNONE
index2adr(st, i) == IF i \in 1..Len(st) THEN st[i] ELSE Other("none")

lua_isnil(v) == v.t = "nil"

lua_isboolean(v) == v.t = "boolean"

lua_isnumber(v) == v.t = "number" \/ (v.t = "string" /\ IsNumeral(v.s))

lua_isstring(v) == v.t = "string" \/ v.t = "number"

lua_istable(v) == v.t = "table"

lua_isfunction(v) == v.t = "function" \/ v.t = "cfunction"

lua_iscfunction(v) == v.t = "cfunction"

lua_isuserdata(v) == v.t = "userdata" \/ v.t = "lightuserdata"

lua_islightuserdata(v) == v.t = "lightuserdata"

lua_toboolean(v) == IF v.t = "nil" \/ (v.t = "boolean" /\ v.lo = 0) THEN 0 ELSE 1

lua_tonumber(v) ==
    IF v.t = "number" THEN v
    ELSE IF v.t = "string" /\ IsNumeral(v.s) THEN Str2Num(v.s)
    ELSE Num(FALSE, 0, 0, FALSE)

lua_tostring(v) ==
    IF v.t = "string" THEN v.s
    ELSE IF v.t = "number" THEN Num2Str(v)
    ELSE NullPtr

lua_pushnumber(neg, w) == Num(neg /\ w # Zero, w[1], w[2], FALSE)

\* lua_pushnumber of an int: the word read as a signed value
PushInt(w) == lua_pushnumber(IsNegInt(w), IF IsNegInt(w) THEN WNeg(w) ELSE w)

----------------------------------------------------------------------------
(* C conversions of a double.  A value outside the target type is undefined *)
(* behaviour; the outcome is fixed by the build: "indefinite" stands for    *)
(* the targets that yield the pattern 0x80000000 for int and the low 32     *)
(* bits for unsigned int, "saturate" for the targets that clamp.            *)

Builds == {"indefinite", "saturate"}

MinInt == <<32768, 0>>

MaxInt == <<32767, 65535>>

MaxUInt == <<65535, 65535>>

\* (int32_t) d, the fraction discarded
ToInt32(b, v) ==
    LET mag == <<v.hi, v.lo>>
        fits == v.hi < 32768 \/ (v.neg /\ mag = MinInt)
    IN  IF fits THEN (IF v.neg THEN WNeg(mag) ELSE mag)
        ELSE IF b = "indefinite" THEN MinInt
        ELSE IF v.neg THEN MinInt ELSE MaxInt

\* (unsigned int) d, the fraction discarded
ToUInt32(b, v) ==
    LET mag == <<v.hi % W16, v.lo>>
        fits == IF v.neg THEN <<v.hi, v.lo>> = Zero ELSE v.hi < W16
    IN  IF fits THEN mag
        ELSE IF b = "indefinite" THEN (IF v.neg THEN WNeg(mag) ELSE mag)
        ELSE IF v.neg THEN Zero ELSE MaxUInt

----------------------------------------------------------------------------
(* The Lua heap: the address lua_tostring returns for a string *)

HeapStrings == << <<"h", "i">>, <<"7">> >>

HeapBase == 8192

StrAddr(s) ==
    IF \E i \in 1..Len(HeapStrings) : HeapStrings[i] = s
    THEN <<HeapBase, 32 * (CHOOSE i \in 1..Len(HeapStrings) : HeapStrings[i] = s)>>
    ELSE <<HeapBase, 0>>

----------------------------------------------------------------------------
(* sysSymTbl *)

A_f == <<16, 256>>

A_h == <<32, 20>>

A_b == <<32, 24>>

A_ub == <<32, 28>>

sysSymTbl ==
    { [name |-> <<"f">>,      type |-> "N_TEXT", addr |-> A_f],
      [name |-> <<"_", "h">>, type |-> "N_DATA", addr |-> A_h],
      [name |-> <<"b">>,      type |-> "N_BSS",  addr |-> A_b],
      [name |-> <<"_", "b">>, type |-> "N_DATA", addr |-> A_ub] }

Addrs == {e.addr : e \in sysSymTbl}

\* symFindByName(sysSymTbl, name, &value, &type) = OK
symFound(name) == \E e \in sysSymTbl : e.name = name

\* the value symFindByName stores on OK
symValue(name) == (CHOOSE e \in sysSymTbl : e.name = name).addr

symType(name) == (CHOOSE e \in sysSymTbl : e.name = name).type

\* the words in memory before any script ran
InitMem ==
    [a \in Addrs |->
        IF a = A_f THEN <<21845, 35301>>
        ELSE IF a = A_h THEN <<0, 456>>
        ELSE IF a = A_b THEN <<0, 11>>
        ELSE <<0, 22>>]

----------------------------------------------------------------------------
(* What one call of a handler did *)

ArgSlots == 0..14

NoArgs == [j \in ArgSlots |-> Zero]

\* an address outside the symbol table, reached through a smashed stack
Wild == <<-1, -1>>

Quiet ==
    [arg |-> NoArgs, idx |-> {}, copyEnd |-> -1, lookups |-> <<>>,
     calls |-> <<>>, reads |-> {}, writes |-> {}, ret |-> <<>>, out |-> <<>>]

\* sizeof symbol_name
BufSize == 128

\* strcpy and strcat do not check the destination: a copy whose NUL lands
\* beyond the last byte of symbol_name overwrites the stack frame
Overflows(copyEnd) == copyEnd > BufSize - 1

\* the frame survives, or the handler returns to a wild address
SmashOutcomes(copyEnd) == IF Overflows(copyEnd) THEN {"intact", "wild"} ELSE {"intact"}

Smashed(o) ==
    [o EXCEPT !.calls = @ \o <<[addr |-> Wild, arg |-> NoArgs]>>, !.ret = <<>>]

----------------------------------------------------------------------------
(* Native code reached through a resolved address *)

RECURSIVE SumArgs(_, _)
SumArgs(arg, j) == IF j > 14 THEN Zero ELSE WAdd(arg[j], SumArgs(arg, j + 1))

\* the function behind the code symbol: int f(a0, ..., a14) returns the sum
\* of its parameters.  Jumping to the address of a variable executes its
\* bytes: the call faults or comes back with some status.
NativeResults(addr, arg) ==
    IF addr = A_f THEN {<<SumArgs(arg, 0)>>}
    ELSE {<<>>, <<Zero>>}

----------------------------------------------------------------------------
(* l_ExecuteLuaCommand: vxDo(name, ...) *)

NoFunction == <<"\"", "n", "o", " ", "f", "u", "n", "c", "t", "i", "o", "n", "\"">>

\* the clip left out
ClipArgs_none(top) == top

\* nArgs = lua_gettop(luaVM); if (nArgs>15) nArgs = 15;
ClipArgs(top) == IF top > 15 THEN 15 ELSE top

\* if(nArgs>=1) if(lua_isstring(luaVM, 1)) symName = lua_tostring(luaVM, 1);
FirstName(st, nArgs) ==
    IF nArgs >= 1 /\ lua_isstring(index2adr(st, 1)) THEN lua_tostring(index2adr(st, 1)) ELSE NullPtr

\* the type chain of the argument loop
MarshalArg(b, v) ==
    IF lua_isnil(v) THEN Zero
    ELSE IF lua_isboolean(v) THEN <<0, lua_toboolean(v)>>
    ELSE IF lua_isnumber(v) THEN ToInt32(b, lua_tonumber(v))
    ELSE IF lua_isstring(v) THEN StrAddr(lua_tostring(v))
    ELSE IF lua_istable(v) THEN Zero
    ELSE IF lua_isfunction(v) THEN Zero
    ELSE IF lua_iscfunction(v) THEN Zero
    ELSE IF lua_isuserdata(v) THEN Zero
    ELSE IF lua_islightuserdata(v) THEN Zero
    ELSE Zero

\* the indexes arg[i-2] written by for(i=2; i<=nArgs; i++)
ArgIndexes(nArgs) == {i - 2 : i \in 2..nArgs}

\* arg[] after the clearing loop and the argument loop; an index beyond the
\* array is a write into the neighbouring stack
ArgVector(b, st, nArgs) ==
    [j \in ArgSlots \cup ArgIndexes(nArgs) |->
        IF j \in ArgIndexes(nArgs) THEN MarshalArg(b, index2adr(st, j + 2)) ELSE Zero]

\* the 15 parameters of (*function_address)(arg[0], ..., arg[14])
Passed(arg) == [j \in ArgSlots |-> arg[j]]

l_ExecuteLuaCommand(b, st) ==
    LET nArgs == ClipArgs(lua_gettop(st))
        symName == FirstName(st, nArgs)
        arg == ArgVector(b, st, nArgs)
        symbol_name == IF symName # NullPtr THEN symName ELSE NoFunction
        copyEnd == IF symName # NullPtr THEN Len(symName) ELSE -1
        base == [Quiet EXCEPT !.arg = arg, !.idx = ArgIndexes(nArgs),
                              !.copyEnd = copyEnd, !.lookups = <<symbol_name>>]
        done ==
            IF symFound(symbol_name)
            THEN { [base EXCEPT
                      !.calls = <<[addr |-> symValue(symbol_name), arg |-> Passed(arg)]>>,
                      !.ret = IF r = <<>> THEN <<>> ELSE <<PushInt(r[1])>>]
                   : r \in NativeResults(symValue(symbol_name), Passed(arg)) }
            ELSE { [base EXCEPT !.out = <<"Error: Function does not exist!">>] }
    IN  { IF k = "wild" THEN Smashed(o) ELSE o : o \in done, k \in SmashOutcomes(copyEnd) }

----------------------------------------------------------------------------
(* l_vxGet: vxGet(name) *)

\* the retry made with the same spelling
Decorated_bare(symName) == symName

\* strcpy(symbol_name, "_"); strcat(symbol_name, symName);
Decorated(symName) == <<"_">> \o symName

NotExist == "Error: Symbol does not exist!"

\* the word read through an int pointer
ReadWord_signed(m, addr) == PushInt(m[addr])

\* lua_pushnumber(luaVM, *((unsigned int*)symbol_value))
ReadWord(m, addr) == lua_pushnumber(FALSE, m[addr])

l_vxGet(m, st) ==
    LET nArgs == lua_gettop(st)
        symName == FirstName(st, nArgs)
        error == ~(nArgs >= 1 /\ lua_isstring(index2adr(st, 1)))
        first == symName
        second == Decorated(symName)
        done ==
            IF symFound(first)
            THEN [Quiet EXCEPT !.copyEnd = Len(first), !.lookups = <<first>>,
                               !.reads = {symValue(first)},
                               !.ret = <<ReadWord(m, symValue(first))>>]
            ELSE IF symFound(second)
            THEN [Quiet EXCEPT !.copyEnd = Len(second), !.lookups = <<first, second>>,
                               !.reads = {symValue(second)},
                               !.ret = <<ReadWord(m, symValue(second))>>]
            ELSE [Quiet EXCEPT !.copyEnd = Len(second), !.lookups = <<first, second>>,
                               !.out = <<NotExist>>]
    IN  IF error THEN { [obs |-> Quiet, mem |-> m] }
        ELSE { [obs |-> IF k = "wild" THEN Smashed(done) ELSE done, mem |-> m]
               : k \in SmashOutcomes(done.copyEnd) }

----------------------------------------------------------------------------
(* l_vxSet: vxSet(name, value) *)

\* ((unsigned int*)symbol_value)[0] = lua_tonumber(luaVM, 2)
WriteWord(b, m, addr, v) == [m EXCEPT ![addr] = ToUInt32(b, lua_tonumber(v))]

\* if(nArgs>=1) if(lua_isstring) error = 0;  if(nArgs<2) error = 1;
SetError(st, nArgs) == ~(nArgs >= 1 /\ lua_isstring(index2adr(st, 1))) \/ nArgs < 2

l_vxSet(b, m, st) ==
    LET nArgs == lua_gettop(st)
        symName == FirstName(st, nArgs)
        error == SetError(st, nArgs)
        first == symName
        second == Decorated(symName)
        done ==
            IF symFound(first)
            THEN [obs |-> [Quiet EXCEPT !.copyEnd = Len(first), !.lookups = <<first>>,
                                         !.writes = {symValue(first)}],
                  mem |-> WriteWord(b, m, symValue(first), index2adr(st, 2))]
            ELSE IF symFound(second)
            THEN [obs |-> [Quiet EXCEPT !.copyEnd = Len(second), !.lookups = <<first, second>>,
                                         !.writes = {symValue(second)}],
                  mem |-> WriteWord(b, m, symValue(second), index2adr(st, 2))]
            ELSE [obs |-> [Quiet EXCEPT !.copyEnd = Len(second), !.lookups = <<first, second>>,
                                         !.out = <<NotExist>>],
                  mem |-> m]
    IN  IF error THEN { [obs |-> Quiet, mem |-> m] }
        ELSE { [obs |-> IF k = "wild" THEN Smashed(done.obs) ELSE done.obs, mem |-> done.mem]
               : k \in SmashOutcomes(done.obs.copyEnd) }

----------------------------------------------------------------------------
(* The calls a script makes *)

RECURSIVE Rep(_, _)
Rep(c, n) == IF n = 0 THEN <<>> ELSE <<c>> \o Rep(c, n - 1)

\* the values a script passes after the name
Pool ==
    << Num(FALSE, 0, 7, FALSE),           \* 7
       Num(TRUE, 0, 1, TRUE),             \* -1.5
       Num(FALSE, 65535, 65535, FALSE),   \* 4294967295
       Str(<<"7">>),
       Str(<<"h", "i">>),
       Nil,
       Bool(TRUE),
       Bool(FALSE),
       Num(FALSE, 0, 7, TRUE),            \* 7.5
       Other("table"),
       Other("function"),
       Other("userdata"),
       Other("cfunction"),
       Other("lightuserdata"),
       Other("thread") >>

\* the values a script passes as the name
Names ==
    { Str(<<"f">>), Str(<<"h">>), Str(<<"b">>), Str(<<"z", "z">>),
      Str(Rep("a", LongLen)), Str(Rep("a", LongLen + 1)),
      Num(FALSE, 0, 5, FALSE), Other("table") }

\* vxSet on the name of a function patches its code; the scripts that are
\* followed do not do that
VarNames == {nm \in Names : ~(nm.t = "string" /\ symFound(nm.s) /\ symType(nm.s) = "N_TEXT")}

\* the Lua stack of a call with top values: the name, then the pool from seed on
Call(nm, top, seed) ==
    [i \in 1..top |-> IF i = 1 THEN nm ELSE Pool[((seed + i - 2) % Len(Pool)) + 1]]

----------------------------------------------------------------------------
(* Actions of the bridge *)

lifeVars == <<luaVM, opened, closes, life>>

NoCall == [op |-> "none", name |-> Nil, val |-> Nil]

\* what the script remembers of the call it made last: the name and the
\* value of a vxSet that stored a word
Summary ==
    IF op = "vxSet" /\ obs.writes # {}
    THEN [op |-> op, name |-> index2adr(stack, 1), val |-> index2adr(stack, 2)]
    ELSE NoCall

vxDo ==
    \E nm \in Names, top \in 0..MaxTop, seed \in 0..MaxSeed :
        /\ op = "none"
        /\ top <= 1 => seed = 0
        /\ stack' = Call(nm, top, seed)
        /\ op' = "vxDo"
        /\ obs' \in l_ExecuteLuaCommand(build, stack')
        /\ UNCHANGED <<build, mem, prev, lifeVars>>

vxGet ==
    \E nm \in Names, top \in 0..MaxVarTop, seed \in 0..MaxSeed :
        /\ op = "none"
        /\ top <= 1 => seed = 0
        /\ stack' = Call(nm, top, seed)
        /\ op' = "vxGet"
        /\ \E o \in l_vxGet(mem, stack') : obs' = o.obs /\ mem' = o.mem
        /\ UNCHANGED <<build, prev, lifeVars>>

vxSet ==
    \E nm \in VarNames, top \in 0..MaxVarTop, seed \in 0..MaxSeed :
        /\ op = "none"
        /\ top <= 1 => seed = 0
        /\ stack' = Call(nm, top, seed)
        /\ op' = "vxSet"
        /\ \E o \in l_vxSet(build, mem, stack') : obs' = o.obs /\ mem' = o.mem
        /\ UNCHANGED <<build, prev, lifeVars>>

\* the handler has returned; the script goes on to its next statement
Resume ==
    /\ op # "none"
    /\ prev' = Summary
    /\ op' = "none"
    /\ stack' = <<>>
    /\ obs' = Quiet
    /\ UNCHANGED <<build, mem, lifeVars>>

----------------------------------------------------------------------------
(* The engine: static lua_State *luaVM = NULL, and the instances lua_open  *)
(* handed out.  Instance e is open when 1 <= e <= opened and closes[e] = 0. *)

NULL == 0

Idle == [op |-> "none", path |-> "", ran |-> NULL, out |-> <<>>]

Paths == {"/c0/script.lua", "/c0/test.lua"}

bridgeVars == <<build, mem, op, stack, obs, prev>>

\* luaVM = lua_open(); luaL_openlibs(luaVM); if (NULL == luaVM) { printf; return; }
\* lua_open returns a new instance, or NULL when the allocation fails; the
\* libraries are opened before the test, on the null state as well
TSysStartLua ==
    \/ /\ opened < MaxEngines
       /\ opened' = opened + 1
       /\ luaVM' = opened + 1
       /\ life' = [Idle EXCEPT !.op = "start", !.out = <<"register">>]
       /\ UNCHANGED <<closes, bridgeVars>>
    \/ /\ luaVM' = NULL
       /\ life' = [Idle EXCEPT !.op = "start",
                               !.out = <<"luaL_openlibs(NULL)", "Error Initializing lua">>]
       /\ UNCHANGED <<opened, closes, bridgeVars>>

\* if(luaVM!=NULL) lua_close(luaVM);
TSysStopLua ==
    /\ luaVM # NULL => closes[luaVM] < MaxCloses
    /\ closes' = IF luaVM # NULL THEN [closes EXCEPT ![luaVM] = @ + 1] ELSE closes
    /\ life' = [Idle EXCEPT !.op = "stop"]
    /\ UNCHANGED <<luaVM, opened, bridgeVars>>

\* if(luaVM!=NULL) luaL_dofile(luaVM, luaScriptPath); else printf(...)
TSysRunLuaScript ==
    \E luaScriptPath \in Paths :
        /\ life' = IF luaVM # NULL
                   THEN [Idle EXCEPT !.op = "run", !.path = luaScriptPath, !.ran = luaVM]
                   ELSE [Idle EXCEPT !.op = "run", !.path = luaScriptPath,
                                     !.out = <<"TSysRunLuaScript(): Lua not initialized!">>]
        /\ UNCHANGED <<luaVM, opened, closes, bridgeVars>>

LifeNext == TSysStartLua \/ TSysStopLua \/ TSysRunLuaScript

Init ==
    /\ build \in Builds
    /\ mem = InitMem
    /\ op = "none"
    /\ stack = <<>>
    /\ obs = Quiet
    /\ prev = NoCall
    /\ luaVM = 0
    /\ opened = 0
    /\ closes = [e \in 1..MaxEngines |-> 0]
    /\ life = Idle

Next == vxDo \/ vxGet \/ vxSet \/ Resume

Spec == Init /\ [][Next]_vars

LifeSpec == Init /\ [][LifeNext]_vars

----------------------------------------------------------------------------
(* Properties *)

\* the call under observation names a symbol by a string
Named == Len(stack) >= 1 /\ stack[1].t = "string"

\* the number of arguments after the name
K == Len(stack) - 1

\* the data symbols of the table
IsData(name) == symFound(name) /\ symType(name) # "N_TEXT"

IsCode(name) == symFound(name) /\ symType(name) = "N_TEXT"

\* C1: vxDo on a function of the symbol table with k <= 15 arguments calls
\* the function exactly once with the marshalled a1..ak in slots 0..k-1 and
\* zero in the other slots, and returns the one value the function returned.
C1_AllArgumentsPassed ==
    (op = "vxDo" /\ Named /\ IsCode(stack[1].s) /\ K <= 15) =>
        /\ Len(obs.calls) = 1
        /\ obs.calls[1].addr = symValue(stack[1].s)
        /\ \A j \in ArgSlots :
              obs.calls[1].arg[j] = IF j < K THEN MarshalArg(build, stack[j + 2]) ELSE Zero
        /\ obs.ret = <<PushInt(SumArgs(obs.calls[1].arg, 0))>>

\* C2: when no spelling the handler looked up is in the symbol table, the
\* handler calls nothing, reads and writes no variable and returns no value.
C2_FailedResolutionTouchesNothing ==
    (op # "none" /\ \A i \in 1..Len(obs.lookups) : ~symFound(obs.lookups[i])) =>
        /\ obs.calls = <<>>
        /\ obs.reads = {}
        /\ obs.writes = {}
        /\ obs.ret = <<>>

\* a Lua number that is an integer of the range of unsigned int
IsWord(v) == v.t = "number" /\ ~v.neg /\ ~v.half /\ v.hi < W16

\* the data symbols a script means by the name n: the one spelled n, and
\* the one spelled _n when no symbol is spelled n
Spelled(n) ==
    {e \in sysSymTbl : /\ e.type # "N_TEXT"
                       /\ \/ e.name = n
                          \/ (e.name = <<"_">> \o n /\ \A d \in sysSymTbl : d.name # n)}

C4_OnlyCodeIsCalled ==
    (op = "vxDo" /\ Named /\ IsData(stack[1].s)) =>
        /\ obs.calls = <<>>
        /\ obs.ret = <<>>
        /\ obs.out # <<>>

\* C5: vxSet with fewer than two arguments writes nothing, looks nothing
\* up, returns nothing and prints a diagnostic.
C5_MissingValueDiagnosed ==
    (op = "vxSet" /\ Len(stack) < 2) =>
        /\ obs.writes = {}
        /\ obs.lookups = <<>>
        /\ obs.ret = <<>>
        /\ obs.out # <<>>

\* C6: every write of the argument loop of vxDo is at an index of 0..14,
\* whatever the number of arguments, and the slots are a function of the
\* argument list: slot j holds the marshalled argument j+1 while j+2 <= 15,
\* every later argument is dropped.
C6_ArgumentVectorBounded ==
    op = "vxDo" =>
        /\ obs.idx \subseteq ArgSlots
        /\ DOMAIN obs.arg = ArgSlots
        /\ \A j \in ArgSlots :
              obs.arg[j] = IF j < K /\ j + 2 <= 15
                           THEN MarshalArg(build, stack[j + 2]) ELSE Zero

C6_Witness ==
    /\ op = "vxDo"
    /\ Len(stack) = 17
    /\ obs.idx = 0..13
    /\ obs.arg[13] # Zero

\* C7: the name copied into symbol_name, the underscore spelling and the NUL
\* included, ends at byte 127 at the latest.
C7_NameFitsBuffer == obs.copyEnd <= BufSize - 1

\* the word of an integer that fits an int
IntWord(v) == IF v.neg THEN WNeg(<<v.hi, v.lo>>) ELSE <<v.hi, v.lo>>

\* C8: vxDo places every string argument as the address of its storage, nil
\* as 0, a boolean as 0 or 1, a number as its truncated integer value and a
\* table, function or userdata as 0.
C8_StringsPassedByAddress ==
    op = "vxDo" =>
        \A j \in obs.idx :
            LET v == stack[j + 2]
            IN  /\ v.t = "string" => obs.arg[j] = StrAddr(v.s)
                /\ v.t = "nil" => obs.arg[j] = Zero
                /\ v.t = "boolean" => obs.arg[j] = <<0, v.lo>>
                /\ (v.t = "number" /\ v.hi < 32768) => obs.arg[j] = IntWord(v)
                /\ v.t \in {"table", "function", "cfunction", "userdata", "lightuserdata"}
                      => obs.arg[j] = Zero

\* the call went past the tests of its arguments
Resolving == Named /\ (op = "vxGet" \/ (op = "vxSet" /\ Len(stack) >= 2))

\* C9: vxGet and vxSet look up the undecorated spelling first and the
\* underscore spelling only after it failed; with both in the table the cell
\* of the undecorated one is read or written and the other is left alone,
\* with the underscore one alone its cell is read or written; vxSet writes at
\* most one cell, vxGet none, and every other cell keeps its word.
C9_UndecoratedFirst ==
    /\ [](Resolving =>
            LET n == stack[1].s
                u == <<"_">> \o n
                touched == obs.reads \cup obs.writes
            IN  /\ obs.lookups[1] = n
                /\ Len(obs.lookups) = 2 => (~symFound(n) /\ obs.lookups[2] = u)
                /\ symFound(n) => (touched = {symValue(n)} /\ Len(obs.lookups) = 1)
                /\ (~symFound(n) /\ symFound(u)) => touched = {symValue(u)}
                /\ op = "vxGet" => (obs.writes = {} /\ Cardinality(obs.reads) <= 1)
                /\ op = "vxSet" => (obs.reads = {} /\ Cardinality(obs.writes) <= 1))
    /\ [][\A a \in Addrs : a \notin obs'.writes => mem'[a] = mem[a]]_vars

C9_Witness ==
    /\ op = "vxSet"
    /\ Named
    /\ stack[1] = Str(<<"b">>)
    /\ obs.writes = {A_b}
    /\ mem[A_b] = <<0, 7>>
    /\ mem[A_ub] = InitMem[A_ub]
    /\ mem[A_h] = MaxUInt

\* instance e is open: handed out by lua_open and not closed since
IsOpen(e) == e # NULL /\ e <= opened /\ closes[e] = 0

\* C10: TSysRunLuaScript runs a script only on an open engine and otherwise
\* only prints that Lua is not initialized, and no instance is closed twice.
C10_RunsOnlyOnOpenEngine ==
    /\ life.op = "run" =>
          IF IsOpen(luaVM)
          THEN life.ran = luaVM
          ELSE life.ran = NULL /\ life.out # <<>>
    /\ \A e \in 1..MaxEngines : closes[e] <= 1

====
